---- MODULE Spec2Model ----
(***************************************************************************)
(* Model of the Oracle analysis scripts under analysis/python-tools:       *)
(*   canadian_order_deep_dive_fixed.py  (script "deep_dive")               *)
(*   wms_analysis.py                    (script "wms_analysis")            *)
(*   auth_test.py                       (script "auth_test")               *)
(* One behaviour is one run of one script against one data source.  The    *)
(* data source and the file system are the environment: every query may    *)
(* raise or return 0..MaxRows rows, every connect / cursor / file          *)
(* operation may fail.                                                     *)
(***************************************************************************)
EXTENDS Integers, Sequences, FiniteSets, TLC

VARIABLES
    script,          \* which script this run executes
    pc,              \* position of the run in the script
    env,             \* configuration source: key -> value, Absent when the key is missing
    oracleAvailable, \* ORACLE_AVAILABLE of wms_analysis.py
    config,          \* the loaded configuration (load_config / from_env / main of auth_test)
    connState,       \* state of every connection the driver opened, by connection id
    cursorState,     \* state of every cursor opened, by cursor id
    connection,      \* conn / self.connection / conn : id of the connection held, 0 = None
    cursor,          \* cursor / self.cursor / cur    : id of the cursor held, 0 = None
    connectLog,      \* one entry per call of the driver's connect()
    queryLog,        \* one entry per strategy query sent through a cursor
    exc,             \* the exception that is propagating, "none" when there is none
    exitStatus,      \* "running", then how the script ended
    patIdx,          \* index of the country pattern tried by Strategy 1
    results,         \* find_canadian_orders: the results dict under construction
    canadian_orders, \* main: the dict find_canadian_orders returned
    selected_order,  \* main: the row selected for the deep dive, NoRow = None
    order_type,      \* main: label of the strategy selected_order came from
    complete_data,   \* main: what get_complete_shipment_data returned last
    deepDives,       \* ship ids get_complete_shipment_data was called with
    files,           \* files written by the deep-dive main
    unshipped,       \* main: the list find_unshipped_canadian_order returned
    unshippedCalled, \* find_unshipped_canadian_order has been entered
    phase,           \* wms_analysis: args.phase, 0 before argument parsing
    inRunAll,        \* wms_analysis: control is inside run_all_phases
    phasesRun,       \* wms_analysis: the phases executed, with the cursor each used
    p4Results,       \* wms_analysis: phase 4, the tables each strategy returned
    connectReturns,  \* wms_analysis: values returned by WMSAnalyzer.connect()
    limit,           \* find_canadian_orders: its limit argument
    spc,             \* get_complete_shipment_data: position in the function, "idle" outside
    data,            \* get_complete_shipment_data: the data dict under construction
    shipLog,         \* get_complete_shipment_data: the tables queried, in order
    shipErrs,        \* get_complete_shipment_data: the steps whose query raised
    dotfile,         \* auth_test.load_dotenv: the file at its path argument
    environ,         \* auth_test.load_dotenv: os.environ
    dotret,          \* auth_test.load_dotenv: its return value, "unset" before it returns
    catalog,         \* wms_analysis: all_tables of the data source, with each table's rows
    report,          \* wms_analysis: what the phase under way wrote to its report file
    reportFile,      \* wms_analysis: the name of that file
    tables,          \* wms_analysis: the table list the phase under way enumerated
    sampled,         \* wms_analysis: the tables the phase under way went through for samples
    execLog          \* wms_analysis: the queries of the phase under way and how they ended

cfgVars  == <<script, env, oracleAvailable>>
connVars == <<connState, cursorState, connection, cursor, connectLog>>
findVars == <<patIdx, results, canadian_orders>>
mainVars == <<selected_order, order_type, complete_data, deepDives, files,
              unshipped, unshippedCalled>>
wmsVars  == <<phase, inRunAll, phasesRun, p4Results, connectReturns>>
shipVars == <<spc, data, shipLog, shipErrs>>
\* state of the step-by-step views of single functions; the script-level
\* actions leave it alone
dotVars  == <<dotfile, environ, dotret>>
reportVars == <<catalog, report, reportFile, tables, sampled, execLog>>
detailVars == <<limit, shipVars, dotVars, reportVars>>
vars     == <<cfgVars, config, connVars, queryLog, exc, exitStatus,
              findVars, mainVars, wmsVars, detailVars, pc>>

----------------------------------------------------------------------------
(* Bounds *)

\* the data source matches at most MaxRows rows for one query
MaxRows == 3

----------------------------------------------------------------------------
(* Configuration *)

Scripts == {"deep_dive", "wms_analysis", "auth_test"}

Absent == "<absent>"

\* keys each script reads from its configuration source
ConfigKeys(s) ==
    IF s = "auth_test"
    THEN {"ORACLE_USERNAME", "ORACLE_PASSWORD", "ORACLE_DSN"}
    ELSE {"ORACLE_USERNAME", "ORACLE_PASSWORD", "SITE_TBG3002_HOST"}

AllKeys == ConfigKeys("auth_test") \cup ConfigKeys("deep_dive")

\* values a key can have in the configuration source
EnvValues(s) ==
    IF s = "auth_test" THEN {Absent, "", " ", "secret"} ELSE {Absent, "secret"}

\* dict.get(key, default) / os.getenv(key, default)
GetOr(e, key, default) == IF e[key] = Absent THEN default ELSE e[key]

\* load_config of the deep-dive script
load_config(e) ==
    [username |-> GetOr(e, "ORACLE_USERNAME", "RPTADM"),
     password |-> GetOr(e, "ORACLE_PASSWORD", ""),
     host     |-> GetOr(e, "SITE_TBG3002_HOST", "10.19.68.61")]

\* DatabaseConfig.from_env of wms_analysis.py
from_env(e) ==
    [username |-> GetOr(e, "ORACLE_USERNAME", "RPTADM"),
     password |-> GetOr(e, "ORACLE_PASSWORD", ""),
     host     |-> GetOr(e, "SITE_TBG3002_HOST", "10.19.68.61")]

\* str.strip() on the values a key can have: a value of blanks becomes empty
strip_value(v) == IF v = " " THEN "" ELSE v

\* the os.getenv calls of auth_test.main: the DSN and the user name are
\* stripped, the password is taken as it is
auth_getenv(e) ==
    [username |-> strip_value(GetOr(e, "ORACLE_USERNAME", "")),
     password |-> GetOr(e, "ORACLE_PASSWORD", ""),
     host     |-> strip_value(GetOr(e, "ORACLE_DSN", ""))]

NoConfig == [username |-> "", password |-> "", host |-> ""]

\* the check without the password
auth_missing_ignores_password(c) == c.username = "" \/ c.host = ""

\* auth_test.main: "if not user or not pw or not dsn"
auth_missing(c) == c.username = "" \/ c.password = "" \/ c.host = ""

----------------------------------------------------------------------------
(* Data source *)

Strategies == <<"by_country", "archived_canadian", "by_rossi", "any_recent">>

\* for country_pattern in ['%CANAD%', 'CA', 'CAN']
CountryPatterns_ca_first == <<"CA", "%CANAD%", "CAN">>

CountryPatterns == <<"%CANAD%", "CA", "CAN">>

\* limit passed by main to find_canadian_orders (also the default of the argument)
DeepDiveLimit == 10

\* ROWNUM bound of the queries of find_unshipped_canadian_order
UnshippedLimit == 20

\* ROWNUM bound of the strategy queries of phase 4
Phase4Limit == 5

\* ROWNUM bound of the LPN query of get_complete_shipment_data
LpnLimit == 10

\* most rows a fetchall of get_complete_shipment_data answers
MaxLines == 2

\* most alternate part numbers of one order line
MaxAlt == 1

\* largest limit argument find_canadian_orders is called with on its own
MaxLimit == 2

\* ROWNUM bound of the sample query of phase 2
Phase2Limit == 10

\* ROWNUM bound of the sample query of phase 3
Phase3Limit == 20

\* "Phase 2: Extract sample data (100 rows per table)" in ANALYSIS_PROMPT
DocumentedSampleRows == 100

Min(a, b) == IF a < b THEN a ELSE b

Range(f) == {f[i] : i \in DOMAIN f}

\* a row is identified by the query that produced it and its position in the
\* order the data source returned it
Row(strategy, pattern, n) == [strategy |-> strategy, pattern |-> pattern, n |-> n]

NoRow == Row("", "", 0)

\* what the data source does with one query: it raises, or matches n rows
QueryOutcomes == {[err |-> TRUE, n |-> 0]} \cup {[err |-> FALSE, n |-> k] : k \in 0..MaxRows}

\* the rows matching a query, in the order of its ORDER BY
Matching(strategy, pattern, n) == [i \in 1..n |-> Row(strategy, pattern, i)]

\* "AND ROWNUM <= :limit" followed by cursor.fetchall()
fetchall_unbounded(strategy, pattern, n, rownum) == Matching(strategy, pattern, n)

fetchall_first_only(strategy, pattern, n, rownum) ==
    SubSeq(Matching(strategy, pattern, n), 1, Min(Min(n, rownum), 1))

fetchall(strategy, pattern, n, rownum) ==
    SubSeq(Matching(strategy, pattern, n), 1, Min(n, rownum))

LogEntry(strategy, pattern, out) ==
    [strategy |-> strategy, pattern |-> pattern, cur |-> cursor,
     err |-> out.err, matched |-> out.n]

----------------------------------------------------------------------------
(* Connections *)

\* what the driver does with one connect call: a connection, or an error
\* (data source unreachable, authentication refused)
ConnectOutcomes == {"ok", "connect_error"}

\* the keys of the configuration source that are missing when connect is called
MissingKeys == {k \in ConfigKeys(script) : env[k] = Absent}

\* driver connect(user, password, dsn) followed by connection.cursor(); the
\* names bound to the connection and the cursor change only on success
DriverConnect(out) ==
    /\ connectLog' = Append(connectLog,
                            [ok |-> out = "ok", args |-> config,
                             missing |-> MissingKeys])
    /\ IF out = "ok"
       THEN /\ connState' = Append(connState, "open")
            /\ connection' = Len(connState) + 1
            /\ cursorState' = Append(cursorState, "open")
            /\ cursor' = Len(cursorState) + 1
       ELSE UNCHANGED <<connState, cursorState, connection, cursor>>

\* cursor.close(); conn.close() on the objects held
CloseBoth ==
    /\ cursorState' = [cursorState EXCEPT ![cursor] = "closed"]
    /\ connState' = [connState EXCEPT ![connection] = "closed"]

----------------------------------------------------------------------------
(* Initial state *)

\* get_complete_shipment_data has not been entered
ShipIdle ==
    /\ spc = "idle"
    /\ data = <<>>
    /\ shipLog = <<>>
    /\ shipErrs = {}

StartPc(s) ==
    CASE s = "deep_dive"    -> "dd_start"
      [] s = "wms_analysis" -> "wms_start"
      [] s = "auth_test"    -> "auth_start"

\* load_dotenv is not under way
DotIdle ==
    /\ dotfile = [exists |-> FALSE, lines |-> <<>>]
    /\ environ = <<>>
    /\ dotret = "idle"

\* no phase of wms_analysis has written anything
ReportIdle ==
    /\ catalog = {}
    /\ report = <<>>
    /\ reportFile = ""
    /\ tables = <<>>
    /\ sampled = <<>>
    /\ execLog = <<>>

\* the state of a script when it is started
InitScript ==
    /\ script \in Scripts
    /\ env \in {e \in [AllKeys -> EnvValues(script)] :
                  \A k \in AllKeys \ ConfigKeys(script) : e[k] = Absent}
    /\ oracleAvailable \in (IF script = "wms_analysis" THEN BOOLEAN ELSE {TRUE})
    /\ pc = StartPc(script)
    /\ config = NoConfig
    /\ connState = <<>>
    /\ cursorState = <<>>
    /\ connection = 0
    /\ cursor = 0
    /\ connectLog = <<>>
    /\ queryLog = <<>>
    /\ exc = "none"
    /\ exitStatus = "running"
    /\ patIdx = 1
    /\ results = <<>>
    /\ canadian_orders = <<>>
    /\ selected_order = NoRow
    /\ order_type = ""
    /\ complete_data = "unset"
    /\ deepDives = <<>>
    /\ files = {}
    /\ unshipped = <<>>
    /\ unshippedCalled = FALSE
    /\ phase = 0
    /\ inRunAll = FALSE
    /\ phasesRun = <<>>
    /\ p4Results = <<>>
    /\ connectReturns = <<>>

Init ==
    /\ InitScript
    /\ limit = DeepDiveLimit
    /\ ShipIdle
    /\ DotIdle
    /\ ReportIdle

----------------------------------------------------------------------------
(* canadian_order_deep_dive_fixed.py : main, up to the try block *)

\* config = load_config()
DDLoadConfig ==
    /\ pc = "dd_start"
    /\ config' = load_config(env)
    /\ pc' = "dd_connect"
    /\ UNCHANGED <<cfgVars, detailVars, connVars, queryLog, exc, exitStatus, findVars,
                   mainVars, wmsVars>>

\* conn = connect_db(config); cursor = conn.cursor()
\* the calls are not inside the try block: an error leaves main at once
DDConnect ==
    /\ pc = "dd_connect"
    /\ \E out \in ConnectOutcomes :
          /\ DriverConnect(out)
          /\ IF out = "ok"
             THEN /\ pc' = "dd_mkdir"
                  /\ UNCHANGED <<exc, exitStatus>>
             ELSE /\ pc' = "done"
                  /\ exc' = "connect_db"
                  /\ exitStatus' = "raised"
    /\ UNCHANGED <<cfgVars, detailVars, config, queryLog, findVars, mainVars, wmsVars>>

\* output_dir.mkdir(parents=True, exist_ok=True), before the try block
DDMkdir ==
    /\ pc = "dd_mkdir"
    /\ \E ok \in BOOLEAN :
          IF ok
          THEN /\ pc' = "dd_s1"
               /\ UNCHANGED <<exc, exitStatus>>
          ELSE /\ pc' = "done"
               /\ exc' = "mkdir"
               /\ exitStatus' = "raised"
    /\ UNCHANGED <<cfgVars, detailVars, config, connVars, queryLog, findVars, mainVars, wmsVars>>

----------------------------------------------------------------------------
(* find_canadian_orders *)

\* one iteration of "for country_pattern in ['%CANAD%', 'CA', 'CAN']", and
\* "if not results.get('by_country')" once the loop is left
DDStrategy1 ==
    /\ pc = "dd_s1"
    /\ \E out \in QueryOutcomes :
          LET pat   == CountryPatterns[patIdx]
              found == fetchall("by_country", pat, out.n, limit)
          IN /\ queryLog' = Append(queryLog, LogEntry("by_country", pat, out))
             /\ IF out.err
                THEN /\ exc' = "find_canadian_orders"
                     /\ pc' = "dd_finally"
                     /\ UNCHANGED <<patIdx, results>>
                ELSE /\ exc' = exc
                     /\ IF found # <<>>
                        THEN /\ results' = ("by_country" :> found) @@ results
                             /\ pc' = "dd_s2"
                             /\ patIdx' = patIdx
                        ELSE IF patIdx < Len(CountryPatterns)
                        THEN /\ patIdx' = patIdx + 1
                             /\ pc' = pc
                             /\ results' = results
                        ELSE /\ results' = ("by_country" :> <<>>) @@ results
                             /\ pc' = "dd_s2"
                             /\ patIdx' = patIdx
    /\ UNCHANGED <<cfgVars, detailVars, config, connVars, exitStatus, canadian_orders,
                   mainVars, wmsVars>>

\* a strategy that is one query: execute, fetchall, store under its key
SingleQueryStrategy(at, name, next) ==
    /\ pc = at
    /\ \E out \in QueryOutcomes :
          /\ queryLog' = Append(queryLog, LogEntry(name, "", out))
          /\ IF out.err
             THEN /\ exc' = "find_canadian_orders"
                  /\ pc' = "dd_finally"
                  /\ UNCHANGED results
             ELSE /\ exc' = exc
                  /\ results' = (name :> fetchall(name, "", out.n, limit)) @@ results
                  /\ pc' = next
    /\ UNCHANGED <<cfgVars, detailVars, config, connVars, exitStatus, patIdx, mainVars, wmsVars>>

\* Strategy 2: archived Canadian orders
DDStrategy2 ==
    /\ SingleQueryStrategy("dd_s2", "archived_canadian", "dd_s3")
    /\ UNCHANGED canadian_orders

\* Strategy 3: ROSSI staging location
DDStrategy3 ==
    /\ SingleQueryStrategy("dd_s3", "by_rossi", "dd_s4")
    /\ UNCHANGED canadian_orders

\* Strategy 4: any recent completed orders, then "return results"
DDStrategy4 ==
    /\ SingleQueryStrategy("dd_s4", "any_recent", "dd_select")
    /\ canadian_orders' = IF pc' = "dd_select" THEN results' ELSE canadian_orders

----------------------------------------------------------------------------
(* main : selection of the order for the deep dive *)

\* the label main gives to each key of the results dict
OrderTypeOf(key) ==
    CASE key = "by_country"        -> "ACTIVE CANADIAN"
      [] key = "archived_canadian" -> "ARCHIVED CANADIAN"
      [] key = "by_rossi"          -> "ROSSI STAGING"
      [] key = "any_recent"        -> "RECENT US (DEMO)"

Selection(row, type) == [row |-> row, type |-> type]

\* the if / elif chain over canadian_orders
select_order_last_row(orders) ==
    IF orders["by_country"] # <<>>
    THEN Selection(orders["by_country"][Len(orders["by_country"])], "ACTIVE CANADIAN")
    ELSE IF orders["archived_canadian"] # <<>>
    THEN Selection(orders["archived_canadian"][Len(orders["archived_canadian"])],
                   "ARCHIVED CANADIAN")
    ELSE IF orders["by_rossi"] # <<>>
    THEN Selection(orders["by_rossi"][Len(orders["by_rossi"])], "ROSSI STAGING")
    ELSE IF orders["any_recent"] # <<>>
    THEN Selection(orders["any_recent"][Len(orders["any_recent"])], "RECENT US (DEMO)")
    ELSE Selection(NoRow, "")

select_order(orders) ==
    IF orders["by_country"] # <<>>
    THEN Selection(orders["by_country"][1], "ACTIVE CANADIAN")
    ELSE IF orders["archived_canadian"] # <<>>
    THEN Selection(orders["archived_canadian"][1], "ARCHIVED CANADIAN")
    ELSE IF orders["by_rossi"] # <<>>
    THEN Selection(orders["by_rossi"][1], "ROSSI STAGING")
    ELSE IF orders["any_recent"] # <<>>
    THEN Selection(orders["any_recent"][1], "RECENT US (DEMO)")
    ELSE Selection(NoRow, "")

\* "if selected_order:" : the deep dive, or straight to Phase 3
after_select_return_when_none(sel) == IF sel # NoRow THEN "dd_deep" ELSE "dd_finally"

after_select(sel) == IF sel # NoRow THEN "dd_deep" ELSE "dd_unshipped"

DDSelect ==
    /\ pc = "dd_select"
    /\ LET s == select_order(canadian_orders)
       IN /\ selected_order' = s.row
          /\ order_type' = s.type
          /\ pc' = after_select(s.row)
    /\ UNCHANGED <<cfgVars, detailVars, config, connVars, queryLog, exc, exitStatus, findVars,
                   complete_data, deepDives, files, unshipped, unshippedCalled,
                   wmsVars>>

----------------------------------------------------------------------------
(* main : deep dive and report files *)

\* what a call of get_complete_shipment_data ends in: a query raises, the
\* shipment is in neither table (None), or the data dict is returned
ShipmentOutcomes == {"error", "None", "data"}

\* complete_data = get_complete_shipment_data(cursor, ship_id); "if complete_data:"
GetCompleteShipmentData(at, ship_id, found, notfound) ==
    /\ pc = at
    /\ deepDives' = Append(deepDives, ship_id)
    /\ \E out \in ShipmentOutcomes :
          /\ complete_data' = IF out = "error" THEN complete_data ELSE out
          /\ exc' = IF out = "error" THEN "get_complete_shipment_data" ELSE exc
          /\ pc' = CASE out = "error" -> "dd_finally"
                     [] out = "None"  -> notfound
                     [] out = "data"  -> found
    /\ UNCHANGED <<cfgVars, detailVars, config, connVars, queryLog, exitStatus, findVars,
                   selected_order, order_type, files, unshipped, unshippedCalled,
                   wmsVars>>

CompleteOrderFiles ==
    <<"complete_order.txt", "complete_order.json", "query_pathway_analysis.txt">>

UnshippedOrderFiles == <<"unshipped_order.txt", "unshipped_order.json">>

\* the "with open(...) as f: f.write / json.dump" blocks, in order; the first
\* n succeed, the next one raises
WriteFiles(at, names, next) ==
    /\ pc = at
    /\ \E n \in 0..Len(names) :
          /\ files' = files \cup {names[i] : i \in 1..n}
          /\ exc' = IF n < Len(names) THEN "open" ELSE exc
          /\ pc' = IF n < Len(names) THEN "dd_finally" ELSE next
    /\ UNCHANGED <<cfgVars, detailVars, config, connVars, queryLog, exitStatus, findVars,
                   selected_order, order_type, complete_data, deepDives, unshipped,
                   unshippedCalled, wmsVars>>

\* Phase 2: complete_data = get_complete_shipment_data(cursor, selected_order[0])
DDDeepDive == GetCompleteShipmentData("dd_deep", selected_order, "dd_write", "dd_unshipped")

\* Phase 2: complete_order_*.txt, complete_order_*.json, query_pathway_analysis.txt
DDWrite == WriteFiles("dd_write", CompleteOrderFiles, "dd_unshipped")

----------------------------------------------------------------------------
(* get_complete_shipment_data, statement by statement *)

\* the places of main that call get_complete_shipment_data
CallSites == {"dd_deep", "dd_unship_deep"}

\* the ship_id argument of the call
ShipIdArg == IF pc = "dd_deep" THEN selected_order ELSE unshipped[1]

\* where main goes on after the call: "if complete_data:" / "if unship_data:"
AfterCall(ret) ==
    CASE pc = "dd_deep" /\ ret = "data"        -> "dd_write"
      [] pc = "dd_deep" /\ ret = "None"        -> "dd_unshipped"
      [] pc = "dd_unship_deep" /\ ret = "data" -> "dd_unship_write"
      [] pc = "dd_unship_deep" /\ ret = "None" -> "dd_finally"

\* a row of the named table, by its position in the answer
DataRow(table, n) == [table |-> table, n |-> n]

\* the header row: the table it came from and whether DSTLOC, STOP_ID and
\* CARCOD hold a value
HeaderRows_always_active(table) ==
    {[table |-> "SHIPMENT", DSTLOC |-> d, STOP_ID |-> s, CARCOD |-> c] :
        d \in BOOLEAN, s \in BOOLEAN, c \in BOOLEAN}

HeaderRows(table) ==
    {[table |-> table, DSTLOC |-> d, STOP_ID |-> s, CARCOD |-> c] :
        d \in BOOLEAN, s \in BOOLEAN, c \in BOOLEAN}

\* execute + fetchone: the query raises, finds no row, or finds one
FetchOne == {"error", "none", "row"}

\* execute + fetchall: the query raises, or answers n rows
FetchAll_rows_despite_error(max) ==
    {[err |-> TRUE, n |-> 1]} \cup {[err |-> FALSE, n |-> k] : k \in 0..max}

FetchAll(max) == {[err |-> TRUE, n |-> 0]} \cup {[err |-> FALSE, n |-> k] : k \in 0..max}

\* data.get(key): the value, or a false value when the key is absent
Get(d, key) == IF key \in DOMAIN d THEN d[key] ELSE <<>>

\* a query of a step outside any try block raises: the exception leaves
\* get_complete_shipment_data and reaches the finally clause of main
ShipRaise(step) ==
    /\ shipErrs' = shipErrs \cup {step}
    /\ spc' = "raised"
    /\ exc' = "get_complete_shipment_data"
    /\ pc' = "dd_finally"
    /\ UNCHANGED <<data, complete_data>>

\* position of the first query that raises in a loop of executes, 0 if none
FirstError(outs) ==
    IF \E i \in DOMAIN outs : outs[i] = "error"
    THEN CHOOSE i \in DOMAIN outs :
            outs[i] = "error" /\ \A j \in 1..(i - 1) : outs[j] # "error"
    ELSE 0

\* the tables queried by a loop that executes one query per element
LoopLog(table, outs) ==
    LET e == FirstError(outs)
    IN [i \in 1..(IF e = 0 THEN Len(outs) ELSE e) |-> table]

\* the rows a fetchone loop appends: one per element whose query found a row
RECURSIVE Found(_, _, _)
Found(table, outs, i) ==
    IF i > Len(outs) THEN <<>>
    ELSE (IF outs[i] = "row" THEN <<DataRow(table, i)>> ELSE <<>>)
         \o Found(table, outs, i + 1)

\* [1] SHIPMENT HEADER, active table
ShipHeader ==
    /\ pc \in CallSites
    /\ spc = "idle"
    /\ deepDives' = Append(deepDives, ShipIdArg)
    /\ shipLog' = Append(shipLog, "SHIPMENT")
    /\ \E out \in FetchOne, row \in HeaderRows("SHIPMENT") :
          CASE out = "error" -> ShipRaise("header")
            [] out = "none"  -> /\ data' = [ship_id |-> ShipIdArg]
                                /\ spc' = "arc_header"
                                /\ UNCHANGED <<shipErrs, exc, pc, complete_data>>
            [] out = "row"   -> /\ data' = ("shipment" :> row) @@ [ship_id |-> ShipIdArg]
                                /\ spc' = "lines"
                                /\ UNCHANGED <<shipErrs, exc, pc, complete_data>>
    /\ UNCHANGED <<cfgVars, limit, dotVars, reportVars, config, connVars, queryLog, exitStatus, findVars,
                   selected_order, order_type, files, unshipped, unshippedCalled,
                   wmsVars>>

\* [1] "if not row:" the archived table; "return None" when it is in neither
ShipArcHeader ==
    /\ pc \in CallSites
    /\ spc = "arc_header"
    /\ shipLog' = Append(shipLog, "ARC_SHIPMENT")
    /\ \E out \in FetchOne, row \in HeaderRows("ARC_SHIPMENT") :
          CASE out = "error" -> ShipRaise("header")
            [] out = "none"  -> /\ complete_data' = "None"
                                /\ spc' = "returned"
                                /\ pc' = AfterCall("None")
                                /\ UNCHANGED <<data, shipErrs, exc>>
            [] out = "row"   -> /\ data' = ("shipment" :> row) @@ ("archived" :> TRUE) @@ data
                                /\ spc' = "lines"
                                /\ UNCHANGED <<shipErrs, exc, pc, complete_data>>
    /\ UNCHANGED <<cfgVars, limit, dotVars, reportVars, config, connVars, queryLog, exitStatus, findVars,
                   selected_order, order_type, deepDives, files, unshipped,
                   unshippedCalled, wmsVars>>

\* what every step after the header leaves alone
ShipFrame ==
    UNCHANGED <<cfgVars, limit, dotVars, reportVars, config, connVars, queryLog, exitStatus, findVars,
                selected_order, order_type, deepDives, files, unshipped,
                unshippedCalled, wmsVars>>

\* [2] SHIPMENT LINES
ShipLines ==
    /\ pc \in CallSites
    /\ spc = "lines"
    /\ shipLog' = Append(shipLog, "SHIPMENT_LINE")
    /\ \E out \in FetchAll(MaxLines) :
          IF out.err
          THEN ShipRaise("shipment_lines")
          ELSE /\ data' = ("shipment_lines" :>
                              [i \in 1..out.n |-> DataRow("SHIPMENT_LINE", i)]) @@ data
               /\ spc' = "order_lines"
               /\ UNCHANGED <<shipErrs, exc, pc, complete_data>>
    /\ ShipFrame

\* [3] ORDER LINE DETAILS: "if data['shipment_lines']:" one fetchone per line
ShipOrderLines ==
    /\ pc \in CallSites
    /\ spc = "order_lines"
    /\ IF data["shipment_lines"] = <<>>
       THEN /\ spc' = "products"
            /\ UNCHANGED <<data, shipLog, shipErrs, exc, pc, complete_data>>
       ELSE \E outs \in [1..Len(data["shipment_lines"]) -> FetchOne] :
               /\ shipLog' = shipLog \o LoopLog("ORD_LINE", outs)
               /\ IF FirstError(outs) # 0
                  THEN ShipRaise("order_lines")
                  ELSE /\ data' = ("order_lines" :> Found("ORD_LINE", outs, 1)) @@ data
                       /\ spc' = "products"
                       /\ UNCHANGED <<shipErrs, exc, pc, complete_data>>
    /\ ShipFrame

\* [4] PRODUCT MASTER DATA: "if data.get('order_lines'):" one fetchone per line
ShipProducts ==
    /\ pc \in CallSites
    /\ spc = "products"
    /\ IF Get(data, "order_lines") = <<>>
       THEN /\ spc' = "alt_parts"
            /\ UNCHANGED <<data, shipLog, shipErrs, exc, pc, complete_data>>
       ELSE \E outs \in [1..Len(data["order_lines"]) -> FetchOne] :
               /\ shipLog' = shipLog \o LoopLog("PRTMST", outs)
               /\ IF FirstError(outs) # 0
                  THEN ShipRaise("products")
                  ELSE /\ data' = ("products" :> Found("PRTMST", outs, 1)) @@ data
                       /\ spc' = "alt_parts"
                       /\ UNCHANGED <<shipErrs, exc, pc, complete_data>>
    /\ ShipFrame

\* the rows of ALT_PRTMST answered for the i-th order line
AltRows(i, n) == [j \in 1..n |-> [table |-> "ALT_PRTMST", n |-> j, line |-> i]]

\* "for alt_row in alt_rows: alt_parts.append(...)" over every order line
RECURSIVE AllAltRows(_, _)
AllAltRows(outs, i) ==
    IF i > Len(outs) THEN <<>>
    ELSE AltRows(i, outs[i].n) \o AllAltRows(outs, i + 1)

\* [5] ALTERNATE PART NUMBERS: one fetchall per order line, every row appended
ShipAltParts ==
    /\ pc \in CallSites
    /\ spc = "alt_parts"
    /\ IF Get(data, "order_lines") = <<>>
       THEN /\ spc' = "lpns"
            /\ UNCHANGED <<data, shipLog, shipErrs, exc, pc, complete_data>>
       ELSE \E outs \in [1..Len(data["order_lines"]) -> FetchAll(MaxAlt)] :
               LET kinds == [i \in DOMAIN outs |-> IF outs[i].err THEN "error" ELSE "row"]
               IN /\ shipLog' = shipLog \o LoopLog("ALT_PRTMST", kinds)
                  /\ IF FirstError(kinds) # 0
                     THEN ShipRaise("alternate_parts")
                     ELSE /\ data' = ("alternate_parts" :> AllAltRows(outs, 1)) @@ data
                          /\ spc' = "lpns"
                          /\ UNCHANGED <<shipErrs, exc, pc, complete_data>>
    /\ ShipFrame

\* "AND ROWNUM <= 10", fetchall, "for lpn_row in lpn_rows: lpns.append(...)"
lpn_rows_unbounded(n) == [i \in 1..n |-> DataRow("INVLOD", i)]

lpn_rows(n) == [i \in 1..Min(n, LpnLimit) |-> DataRow("INVLOD", i)]

\* what the LPN query does: it raises, or the staging location holds up to
\* MaxLines LPNs, or more than the query asks for
LpnOutcomes == FetchAll(MaxLines) \cup {[err |-> FALSE, n |-> LpnLimit + 1]}

\* [6] LPNs by staging location: "if data['shipment'].get('DSTLOC'):", then
\* data['lpns'] = lpns in either case
ShipLpns ==
    /\ pc \in CallSites
    /\ spc = "lpns"
    /\ IF ~data["shipment"].DSTLOC
       THEN /\ data' = ("lpns" :> <<>>) @@ data
            /\ spc' = "stop"
            /\ UNCHANGED <<shipLog, shipErrs, exc, pc, complete_data>>
       ELSE /\ shipLog' = Append(shipLog, "INVLOD")
            /\ \E out \in LpnOutcomes :
                  IF out.err
                  THEN ShipRaise("lpns")
                  ELSE /\ data' = ("lpns" :> lpn_rows(out.n)) @@ data
                       /\ spc' = "stop"
                       /\ UNCHANGED <<shipErrs, exc, pc, complete_data>>
    /\ ShipFrame

\* [7] STOP INFORMATION: "if data['shipment'].get('STOP_ID'):"
ShipStop ==
    /\ pc \in CallSites
    /\ spc = "stop"
    /\ IF ~data["shipment"].STOP_ID
       THEN /\ spc' = "trailer"
            /\ UNCHANGED <<data, shipLog, shipErrs, exc, pc, complete_data>>
       ELSE /\ shipLog' = Append(shipLog, "STOP")
            /\ \E out \in FetchOne :
                  CASE out = "error" -> ShipRaise("stop")
                    [] out = "none"  -> /\ spc' = "trailer"
                                        /\ UNCHANGED <<data, shipErrs, exc, pc, complete_data>>
                    [] out = "row"   -> /\ data' = ("stop" :> DataRow("STOP", 1)) @@ data
                                        /\ spc' = "trailer"
                                        /\ UNCHANGED <<shipErrs, exc, pc, complete_data>>
    /\ ShipFrame

\* [8] TRAILER/LOAD INFORMATION, inside try / except Exception
ShipTrailer ==
    /\ pc \in CallSites
    /\ spc = "trailer"
    /\ shipLog' = Append(shipLog, "TRLR_LOAD")
    /\ \E out \in FetchAll(MaxLines) :
          /\ data' = ("trailer_loads" :>
                         [i \in 1..out.n |-> DataRow("TRLR_LOAD", i)]) @@ data
          /\ shipErrs' = IF out.err THEN shipErrs \cup {"trailer_loads"} ELSE shipErrs
    /\ spc' = "carrier"
    /\ UNCHANGED <<exc, pc, complete_data>>
    /\ ShipFrame

\* [9] CARRIER MASTER DATA: "if data['shipment'].get('CARCOD'):" inside
\* try / except Exception; then "return data"
ShipCarrier ==
    /\ pc \in CallSites
    /\ spc = "carrier"
    /\ IF ~data["shipment"].CARCOD
       THEN UNCHANGED <<data, shipLog, shipErrs>>
       ELSE /\ shipLog' = Append(shipLog, "CARMST")
            /\ \E out \in FetchOne :
                  /\ data' = IF out = "row"
                             THEN ("carrier" :> DataRow("CARMST", 1)) @@ data
                             ELSE data
                  /\ shipErrs' = IF out = "error" THEN shipErrs \cup {"carrier"}
                                 ELSE shipErrs
    /\ spc' = "returned"
    /\ complete_data' = "data"
    /\ pc' = AfterCall("data")
    /\ UNCHANGED exc
    /\ ShipFrame

get_complete_shipment_data ==
    \/ ShipHeader \/ ShipArcHeader \/ ShipLines \/ ShipOrderLines \/ ShipProducts
    \/ ShipAltParts \/ ShipLpns \/ ShipStop \/ ShipTrailer \/ ShipCarrier

----------------------------------------------------------------------------
(* find_unshipped_canadian_order, and Phase 3 of main *)

\* "if unshipped:" in main
after_unshipped(rows) == IF rows # <<>> THEN "dd_unship_deep" ELSE "dd_finally"

\* "if not results:" after Try 1
needs_fallback_always(rows) == TRUE

needs_fallback(rows) == rows = <<>>

\* Try 1: unshipped Canadian orders
DDUnshipped1 ==
    /\ pc = "dd_unshipped"
    /\ unshippedCalled' = TRUE
    /\ \E out \in QueryOutcomes :
          LET rows == fetchall("unshipped_canadian", "", out.n, UnshippedLimit)
          IN /\ queryLog' = Append(queryLog, LogEntry("unshipped_canadian", "", out))
             /\ IF out.err
                THEN /\ exc' = "find_unshipped_canadian_order"
                     /\ pc' = "dd_finally"
                     /\ UNCHANGED unshipped
                ELSE /\ exc' = exc
                     /\ IF ~needs_fallback(rows)
                        THEN /\ unshipped' = rows
                             /\ pc' = after_unshipped(rows)
                        ELSE /\ unshipped' = unshipped
                             /\ pc' = "dd_unshipped2"
    /\ UNCHANGED <<cfgVars, detailVars, config, connVars, exitStatus, findVars, selected_order,
                   order_type, complete_data, deepDives, files, wmsVars>>

\* Try 2: any recent unshipped order, then "return results"
DDUnshipped2 ==
    /\ pc = "dd_unshipped2"
    /\ \E out \in QueryOutcomes :
          LET rows == fetchall("unshipped_any", "", out.n, UnshippedLimit)
          IN /\ queryLog' = Append(queryLog, LogEntry("unshipped_any", "", out))
             /\ IF out.err
                THEN /\ exc' = "find_unshipped_canadian_order"
                     /\ pc' = "dd_finally"
                     /\ UNCHANGED unshipped
                ELSE /\ exc' = exc
                     /\ unshipped' = rows
                     /\ pc' = after_unshipped(rows)
    /\ UNCHANGED <<cfgVars, detailVars, config, connVars, exitStatus, findVars, selected_order,
                   order_type, complete_data, deepDives, files, unshippedCalled,
                   wmsVars>>

\* unship_data = get_complete_shipment_data(cursor, unshipped[0][0])
DDUnshipDeep ==
    GetCompleteShipmentData("dd_unship_deep", unshipped[1], "dd_unship_write", "dd_finally")

\* unshipped_order_*.txt, unshipped_order_*.json
DDUnshipWrite == WriteFiles("dd_unship_write", UnshippedOrderFiles, "dd_finally")

\* finally: cursor.close(); conn.close(); the exception, if any, then leaves main
DDFinally ==
    /\ pc = "dd_finally"
    /\ CloseBoth
    /\ exitStatus' = IF exc = "none" THEN "ok" ELSE "raised"
    /\ pc' = "done"
    /\ UNCHANGED <<cfgVars, detailVars, config, connection, cursor, connectLog, queryLog, exc,
                   findVars, mainVars, wmsVars>>

DeepDiveNext ==
    \/ DDLoadConfig \/ DDConnect \/ DDMkdir
    \/ DDStrategy1 \/ DDStrategy2 \/ DDStrategy3 \/ DDStrategy4
    \/ DDSelect \/ DDDeepDive \/ DDWrite
    \/ DDUnshipped1 \/ DDUnshipped2 \/ DDUnshipDeep \/ DDUnshipWrite
    \/ DDFinally

----------------------------------------------------------------------------
(* wms_analysis.py : WMSAnalyzer.connect / disconnect *)

\* WMSAnalyzer.connect: True when the driver calls succeed, False from the
\* except block otherwise
connect_returns(out) == out = "ok"

\* the object disconnect() is about to close has been closed before
ClosesClosed ==
    \/ cursor # 0 /\ cursorState[cursor] = "closed"
    \/ connection # 0 /\ connState[connection] = "closed"

\* WMSAnalyzer.disconnect: close the cursor and the connection held, when set.
\* Closing an object that is closed already is the driver's business: it either
\* raises (raised = TRUE, and the rest of disconnect is skipped) or does nothing.
disconnect(raised) ==
    IF raised /\ cursor # 0 /\ cursorState[cursor] = "closed"
    THEN UNCHANGED <<connState, cursorState>>
    ELSE /\ cursorState' = IF cursor # 0
                           THEN [cursorState EXCEPT ![cursor] = "closed"]
                           ELSE cursorState
         /\ connState' = IF connection # 0 /\ ~raised
                         THEN [connState EXCEPT ![connection] = "closed"]
                         ELSE connState

DisconnectOutcomes == IF ClosesClosed THEN BOOLEAN ELSE {FALSE}

----------------------------------------------------------------------------
(* wms_analysis.py : the __main__ block *)

Phases == 1..4

PhasePc == <<"wms_p1", "wms_p2", "wms_p3", "wms_p4">>

\* args = parser.parse_args(): --phase, choices 1..4
WmsParseArgs ==
    /\ pc = "wms_start"
    /\ \E p \in Phases : phase' = p
    /\ pc' = "wms_from_env"
    /\ UNCHANGED <<cfgVars, detailVars, config, connVars, queryLog, exc, exitStatus, findVars,
                   mainVars, inRunAll, phasesRun, p4Results, connectReturns>>

\* config = DatabaseConfig.from_env(); analyzer = WMSAnalyzer(config, args.output)
WmsFromEnv ==
    /\ pc = "wms_from_env"
    /\ config' = from_env(env)
    /\ pc' = "wms_connect"
    /\ UNCHANGED <<cfgVars, detailVars, connVars, queryLog, exc, exitStatus, findVars, mainVars,
                   wmsVars>>

\* where "if analyzer.connect():" leads: the phase chain, run_all_phases, or
\* the else branch with sys.exit(1)
after_connect_ignoring_result(ret, p) ==
    IF p = 4 THEN "wms_rap_connect" ELSE "wms_p1"

after_connect(ret, p) ==
    IF ret THEN (IF p = 4 THEN "wms_rap_connect" ELSE "wms_p1") ELSE "done"

\* if analyzer.connect(): ... else: sys.exit(1)
WmsConnect ==
    /\ pc = "wms_connect"
    /\ IF ~oracleAvailable
       THEN /\ connectReturns' = Append(connectReturns, FALSE)
            /\ pc' = after_connect(FALSE, phase)
            /\ exitStatus' = "exit1"
            /\ UNCHANGED connVars
       ELSE \E out \in ConnectOutcomes :
               /\ DriverConnect(out)
               /\ connectReturns' = Append(connectReturns, connect_returns(out))
               /\ pc' = after_connect(connect_returns(out), phase)
               /\ exitStatus' = IF connect_returns(out) THEN exitStatus ELSE "exit1"
    /\ UNCHANGED <<cfgVars, detailVars, config, queryLog, exc, findVars, mainVars, phase,
                   inRunAll, phasesRun, p4Results>>

\* run_all_phases: "if not self.connect(): return False", before its try block
WmsRunAllConnect ==
    /\ pc = "wms_rap_connect"
    /\ \E out \in ConnectOutcomes :
          /\ DriverConnect(out)
          /\ connectReturns' = Append(connectReturns, connect_returns(out))
          /\ IF connect_returns(out)
             THEN /\ inRunAll' = TRUE
                  /\ pc' = "wms_p1"
             ELSE /\ inRunAll' = FALSE
                  /\ pc' = "wms_disconnect"
    /\ UNCHANGED <<cfgVars, detailVars, config, queryLog, exc, exitStatus, findVars, mainVars,
                   phase, phasesRun, p4Results>>

----------------------------------------------------------------------------
(* wms_analysis.py : the phases *)

\* the statement that follows phase n when it returns
after_phase(n) ==
    IF inRunAll
    THEN (IF n < 4 THEN PhasePc[n + 1] ELSE "wms_rap_finally")
    ELSE (IF n < phase THEN PhasePc[n + 1] ELSE "wms_disconnect")

\* Control in and out of one phase.  Query errors are caught inside the phase
\* (execute_query, and the try blocks around the sampling); opening or writing
\* the report file is not guarded, so an I/O error leaves the phase.
RunPhase(n, ioerr) ==
    /\ pc = PhasePc[n]
    /\ phasesRun' = Append(phasesRun, [phase |-> n, cur |-> cursor, conn |-> connection])
    /\ IF ioerr
       THEN /\ exc' = "open"
            /\ IF inRunAll
               THEN /\ pc' = "wms_rap_finally"
                    /\ exitStatus' = exitStatus
               ELSE /\ pc' = "done"
                    /\ exitStatus' = "raised"
       ELSE /\ exc' = exc
            /\ exitStatus' = exitStatus
            /\ pc' = after_phase(n)
    /\ UNCHANGED <<cfgVars, limit, shipVars, dotVars, config, connVars, findVars, mainVars,
                   phase, inRunAll, connectReturns>>

phase_1_schema_discovery ==
    /\ \E ioerr \in BOOLEAN : RunPhase(1, ioerr)
    /\ UNCHANGED <<queryLog, p4Results, reportVars>>

phase_2_sample_data ==
    /\ \E ioerr \in BOOLEAN : RunPhase(2, ioerr)
    /\ UNCHANGED <<queryLog, p4Results, reportVars>>

phase_3_targeted_analysis ==
    /\ \E ioerr \in BOOLEAN : RunPhase(3, ioerr)
    /\ UNCHANGED <<queryLog, p4Results, reportVars>>

search_strategies ==
    <<"ROSSI Staging Location", "Ship-To Country = CA", "Walmart Vendor Code">>

\* execute_query: the rows, or [] when the query raised
execute_query(name, out) ==
    IF out.err THEN <<>> ELSE fetchall(name, "", out.n, Phase4Limit)

\* "for strategy in search_strategies:" : every strategy is executed and its
\* tables are written to the report
phase_4_canadian_analysis ==
    \E ioerr \in BOOLEAN :
       /\ RunPhase(4, ioerr)
       /\ UNCHANGED reportVars
       /\ IF ioerr
          THEN UNCHANGED <<queryLog, p4Results>>
          ELSE \E outs \in [1..Len(search_strategies) -> QueryOutcomes] :
                  /\ queryLog' = queryLog \o
                        [i \in 1..Len(search_strategies) |->
                            LogEntry(search_strategies[i], "", outs[i])]
                  /\ p4Results' = [i \in 1..Len(search_strategies) |->
                                     execute_query(search_strategies[i], outs[i])]

----------------------------------------------------------------------------
(* wms_analysis.py : what the phases query and write *)

\* the tables the data source may hold: a table no keyword of phase 3 matches,
\* a system table, a table one keyword list matches (SHIP) and a table two
\* keyword lists match (LOAD)
Table(owner, name) == [owner |-> owner, name |-> name]

Universe ==
    { Table("ARCH", "ADRMST"), Table("SYS", "SHIPMENT"),
      Table("WMSP", "SHIPMENT"), Table("WMSP", "TRLR_LOAD") }

\* the rows a table may hold
TableSizes == {0, DocumentedSampleRows}

\* the identifiers of Universe in ascending order, as ORDER BY compares them
Ascending ==
    <<"ADRMST", "ARCH", "SHIPMENT", "SYS", "TRLR_LOAD", "WMSP">>

Rank(id) == CHOOSE i \in DOMAIN Ascending : Ascending[i] = id

\* ORDER BY owner, table_name
Before(a, b) ==
    \/ Rank(a.owner) < Rank(b.owner)
    \/ a.owner = b.owner /\ Rank(a.name) < Rank(b.name)

RECURSIVE OrderBy(_)
OrderBy(S) ==
    IF S = {} THEN <<>>
    ELSE LET first == CHOOSE a \in S : \A b \in S \ {a} : Before(a, b)
         IN <<first>> \o OrderBy(S \ {first})

\* owner NOT IN (...) of the table query of phase 1 (also of its schema query)
DenylistP1 ==
    {"SYS", "SYSTEM", "DBSNMP", "OUTLN", "MDSYS", "ORDSYS", "EXFSYS", "DMSYS", "WMSYS",
     "CTXSYS", "XDB", "ANONYMOUS", "ORDDATA", "SI_INFORMTN_SCHEMA", "OLAPSYS"}

\* owner NOT IN (...) of the table query of phase 2
DenylistP2_without_sys ==
    {"SYSTEM", "DBSNMP", "OUTLN", "MDSYS", "ORDSYS", "EXFSYS", "DMSYS", "WMSYS",
     "CTXSYS", "XDB", "ANONYMOUS", "ORDDATA", "SI_INFORMTN_SCHEMA", "OLAPSYS"}

DenylistP2 ==
    {"SYS", "SYSTEM", "DBSNMP", "OUTLN", "MDSYS", "ORDSYS", "EXFSYS", "DMSYS", "WMSYS",
     "CTXSYS", "XDB", "ANONYMOUS", "ORDDATA", "SI_INFORMTN_SCHEMA", "OLAPSYS"}

\* owner NOT IN (...) of the table query of phase 3
DenylistP3 ==
    {"SYS", "SYSTEM", "DBSNMP", "OUTLN", "MDSYS", "ORDSYS", "EXFSYS", "DMSYS", "WMSYS",
     "CTXSYS", "XDB", "ANONYMOUS", "ORDDATA", "SI_INFORMTN_SCHEMA", "OLAPSYS"}

\* SELECT owner, table_name FROM all_tables WHERE owner NOT IN deny
\* ORDER BY owner, table_name
all_tables_query(deny) ==
    OrderBy({Table(t.owner, t.name) : t \in {c \in catalog : c.owner \notin deny}})

\* SELECT COUNT(*) FROM owner.table_name
RowsOf(t) == (CHOOSE c \in catalog : c.owner = t.owner /\ c.name = t.name).rows

\* owner || '.' || table_name, for the names of Universe
FullName(t) ==
    CASE t = Table("ARCH", "ADRMST")    -> "ARCH.ADRMST"
      [] t = Table("SYS", "SHIPMENT")   -> "SYS.SHIPMENT"
      [] t = Table("WMSP", "SHIPMENT")  -> "WMSP.SHIPMENT"
      [] t = Table("WMSP", "TRLR_LOAD") -> "WMSP.TRLR_LOAD"

\* "x in t.upper()" for the full names of Universe
HasKeyword(t, x) ==
    \/ x = "SHIP" /\ t.name = "SHIPMENT"
    \/ x = "LOAD" /\ t.name = "TRLR_LOAD"

\* [t for t in all_tables if any(x in t.upper() for x in keywords)]
KeyTables(all, keywords) ==
    SelectSeq(all, LAMBDA t : \E x \in keywords : HasKeyword(t, x))

\* execute_query: the rows, or [] when the query raised
ExecuteQuery(err, rows) == IF err THEN <<>> ELSE rows

\* one f.write of a report: what is written, about which item, with which number
Entry(kind, item, n) == [kind |-> kind, item |-> item, n |-> n]

\* one query of a phase: about which item, for what, and whether it raised
Query(item, what, err) == [item |-> item, what |-> what, err |-> err]

\* phase 1, "for (owner, table_name) in tables:" from table i on; outs[i] tells
\* whether the column query and the count query of table i raise
RECURSIVE Phase1Sections(_, _, _)
Phase1Sections(tbls, outs, i) ==
    IF i > Len(tbls) THEN <<>>
    ELSE LET nm      == FullName(tbls[i])
             columns == ExecuteQuery(outs[i].col, <<"column">>)
             count   == ExecuteQuery(outs[i].cnt, <<RowsOf(tbls[i])>>)
         IN <<Entry("TABLE", nm, 0), Entry("Columns", nm, Len(columns))>>
            \o (IF count # <<>> THEN <<Entry("Row Count", nm, count[1])>> ELSE <<>>)
            \o Phase1Sections(tbls, outs, i + 1)

RECURSIVE Phase1Queries(_, _, _)
Phase1Queries(tbls, outs, i) ==
    IF i > Len(tbls) THEN <<>>
    ELSE <<Query(FullName(tbls[i]), "columns", outs[i].col),
           Query(FullName(tbls[i]), "count", outs[i].cnt)>>
         \o Phase1Queries(tbls, outs, i + 1)

\* Phase 1: 01_schema_discovery.txt
phase_1_report ==
    \E ioerr \in BOOLEAN :
       /\ RunPhase(1, ioerr)
       /\ UNCHANGED <<queryLog, p4Results, catalog>>
       /\ IF ioerr
          THEN UNCHANGED <<report, reportFile, tables, sampled, execLog>>
          ELSE \E serr \in BOOLEAN, terr \in BOOLEAN :
                  LET schemas == ExecuteQuery(serr,
                                    OrderBy({Table(t.owner, "") : t \in Range(all_tables_query(DenylistP1))}))
                      tbls    == ExecuteQuery(terr, all_tables_query(DenylistP1))
                  IN \E outs \in [1..Len(tbls) -> [col : BOOLEAN, cnt : BOOLEAN]] :
                        /\ reportFile' = "01_schema_discovery.txt"
                        /\ tables' = tbls
                        /\ sampled' = <<>>
                        /\ report' = <<Entry("Found schemas", "", Len(schemas)),
                                       Entry("Total Tables Found", "", Len(tbls))>>
                                     \o Phase1Sections(tbls, outs, 1)
                        /\ execLog' = <<Query("", "schemas", serr), Query("", "tables", terr)>>
                                      \o Phase1Queries(tbls, outs, 1)

\* what the sample query of one table does: cursor.execute raises, fetchall
\* raises, or the rows are fetched
SampleOutcomes == {"execute_error", "fetch_error", "rows"}

\* the body of the try block of the sampling loops, and its except clause
SampleBody(t, out, rownum) ==
    CASE out = "execute_error" -> <<Entry("Error", FullName(t), 0)>>
      [] out = "fetch_error"   -> <<Entry("Columns", FullName(t), 1),
                                    Entry("Error", FullName(t), 0)>>
      [] out = "rows"          -> <<Entry("Columns", FullName(t), 1),
                                    Entry("Rows", FullName(t), Min(RowsOf(t), rownum))>>

\* the sampling loop from table i on: the header of each table, then the sample
RECURSIVE SampleSections_stop_at_error(_, _, _, _, _)
SampleSections_stop_at_error(header, tbls, outs, rownum, i) ==
    IF i > Len(tbls) THEN <<>>
    ELSE <<Entry(header, FullName(tbls[i]), 0)>>
         \o SampleBody(tbls[i], outs[i], rownum)
         \o (IF outs[i] # "rows" THEN <<>>
             ELSE SampleSections_stop_at_error(header, tbls, outs, rownum, i + 1))

RECURSIVE SampleSections(_, _, _, _, _)
SampleSections(header, tbls, outs, rownum, i) ==
    IF i > Len(tbls) THEN <<>>
    ELSE <<Entry(header, FullName(tbls[i]), 0)>>
         \o SampleBody(tbls[i], outs[i], rownum)
         \o SampleSections(header, tbls, outs, rownum, i + 1)

SampleQueries(tbls, outs) ==
    [i \in 1..Len(tbls) |-> Query(FullName(tbls[i]), "sample", outs[i] # "rows")]

\* Phase 2: 02_sample_data.txt
phase_2_report ==
    \E ioerr \in BOOLEAN :
       /\ RunPhase(2, ioerr)
       /\ UNCHANGED <<queryLog, p4Results, catalog>>
       /\ IF ioerr
          THEN UNCHANGED <<report, reportFile, tables, sampled, execLog>>
          ELSE \E terr \in BOOLEAN :
                  LET tbls == ExecuteQuery(terr, all_tables_query(DenylistP2))
                  IN \E outs \in [1..Len(tbls) -> SampleOutcomes] :
                        /\ reportFile' = "02_sample_data.txt"
                        /\ tables' = tbls
                        /\ sampled' = tbls
                        /\ report' = SampleSections("TABLE", tbls, outs, Phase2Limit, 1)
                        /\ execLog' = <<Query("", "tables", terr)>> \o SampleQueries(tbls, outs)

\* Phase 3: 03_shipment_analysis.txt
phase_3_report ==
    \E ioerr \in BOOLEAN :
       /\ RunPhase(3, ioerr)
       /\ UNCHANGED <<queryLog, p4Results, catalog>>
       /\ IF ioerr
          THEN UNCHANGED <<report, reportFile, tables, sampled, execLog>>
          ELSE \E terr \in BOOLEAN :
                  LET all_tables      == ExecuteQuery(terr, all_tables_query(DenylistP3))
                      shipment_tables == KeyTables(all_tables, {"SHIP", "ORDER", "LOAD"})
                      lpn_tables      == KeyTables(all_tables, {"LPN", "PALLET", "LOAD"})
                      item_tables     == KeyTables(all_tables, {"LINE", "ITEM", "DETAIL"})
                      key_tables      == shipment_tables \o lpn_tables \o item_tables
                  IN \E outs \in [1..Len(key_tables) -> SampleOutcomes] :
                        /\ reportFile' = "03_shipment_analysis.txt"
                        /\ tables' = all_tables
                        /\ sampled' = key_tables
                        /\ report' =
                              [i \in 1..Len(key_tables) |->
                                  Entry("Key table", FullName(key_tables[i]), 0)]
                              \o SampleSections("DETAILED VIEW", key_tables, outs, Phase3Limit, 1)
                        /\ execLog' = <<Query("", "tables", terr)>>
                                      \o SampleQueries(key_tables, outs)

\* Phase 4: 04_canadian_orders.txt
phase_4_report ==
    \E ioerr \in BOOLEAN :
       /\ RunPhase(4, ioerr)
       /\ UNCHANGED catalog
       /\ IF ioerr
          THEN UNCHANGED <<queryLog, p4Results, report, reportFile, tables, sampled, execLog>>
          ELSE \E outs \in [1..Len(search_strategies) -> QueryOutcomes] :
                  LET found == [i \in 1..Len(search_strategies) |->
                                   execute_query(search_strategies[i], outs[i])]
                  IN /\ queryLog' = queryLog \o
                           [i \in 1..Len(search_strategies) |->
                               LogEntry(search_strategies[i], "", outs[i])]
                     /\ p4Results' = found
                     /\ reportFile' = "04_canadian_orders.txt"
                     /\ tables' = <<>>
                     /\ sampled' = <<>>
                     /\ report' = [i \in 1..(2 * Len(search_strategies)) |->
                                      IF i % 2 = 1
                                      THEN Entry("Strategy", search_strategies[(i + 1) \div 2], 0)
                                      ELSE Entry("Potential tables", search_strategies[i \div 2],
                                                 Len(found[i \div 2]))]
                     /\ execLog' = [i \in 1..Len(search_strategies) |->
                                      Query(search_strategies[i], "strategy", outs[i].err)]

\* run_all_phases: "finally: self.disconnect()", then return True or re-raise
WmsRunAllFinally ==
    /\ pc = "wms_rap_finally"
    /\ \E raised \in DisconnectOutcomes :
          /\ disconnect(raised)
          /\ IF raised \/ exc # "none"
             THEN /\ exc' = IF raised THEN "disconnect" ELSE exc
                  /\ pc' = "done"
                  /\ exitStatus' = "raised"
             ELSE /\ exc' = exc
                  /\ pc' = "wms_disconnect"
                  /\ exitStatus' = exitStatus
    /\ inRunAll' = FALSE
    /\ UNCHANGED <<cfgVars, detailVars, config, connection, cursor, connectLog, queryLog,
                   findVars, mainVars, phase, phasesRun, p4Results, connectReturns>>

\* analyzer.disconnect() at the end of the "if analyzer.connect():" branch
WmsDisconnect ==
    /\ pc = "wms_disconnect"
    /\ \E raised \in DisconnectOutcomes :
          /\ disconnect(raised)
          /\ exc' = IF raised THEN "disconnect" ELSE exc
          /\ exitStatus' = IF raised THEN "raised" ELSE "ok"
    /\ pc' = "done"
    /\ UNCHANGED <<cfgVars, detailVars, config, connection, cursor, connectLog, queryLog,
                   findVars, mainVars, wmsVars>>

WmsNext ==
    \/ WmsParseArgs \/ WmsFromEnv \/ WmsConnect \/ WmsRunAllConnect
    \/ phase_1_schema_discovery \/ phase_2_sample_data
    \/ phase_3_targeted_analysis \/ phase_4_canadian_analysis
    \/ WmsRunAllFinally \/ WmsDisconnect

----------------------------------------------------------------------------
(* auth_test.py : main *)

\* find_and_load_env(), the os.getenv calls and the check for missing values
AuthCheck ==
    /\ pc = "auth_start"
    /\ config' = auth_getenv(env)
    /\ IF auth_missing(config')
       THEN /\ pc' = "done"
            /\ exitStatus' = "exit2"
       ELSE /\ pc' = "auth_connect"
            /\ exitStatus' = exitStatus
    /\ UNCHANGED <<cfgVars, detailVars, connVars, queryLog, exc, findVars, mainVars, wmsVars>>

\* conn = oracledb.connect(...); cur = conn.cursor(), inside the try block
AuthConnect ==
    /\ pc = "auth_connect"
    /\ \E out \in ConnectOutcomes :
          /\ DriverConnect(out)
          /\ IF out = "ok"
             THEN /\ pc' = "auth_query"
                  /\ UNCHANGED <<exc, exitStatus>>
             ELSE /\ pc' = "done"
                  /\ exc' = "oracledb.Error"
                  /\ exitStatus' = "exit3"
    /\ UNCHANGED <<cfgVars, detailVars, config, queryLog, findVars, mainVars, wmsVars>>

\* cur.execute(...); row = cur.fetchone(); cur.close(); conn.close(); return 0
\* or "except oracledb.Error": return 3
AuthQuery ==
    /\ pc = "auth_query"
    /\ \E err \in BOOLEAN :
          /\ queryLog' = Append(queryLog,
                                LogEntry("dual", "", [err |-> err, n |-> IF err THEN 0 ELSE 1]))
          /\ IF err
             THEN /\ exc' = "oracledb.Error"
                  /\ exitStatus' = "exit3"
                  /\ UNCHANGED <<connState, cursorState>>
             ELSE /\ CloseBoth
                  /\ exc' = exc
                  /\ exitStatus' = "ok"
    /\ pc' = "done"
    /\ UNCHANGED <<cfgVars, detailVars, config, connection, cursor, connectLog, findVars,
                   mainVars, wmsVars>>

AuthNext == AuthCheck \/ AuthConnect \/ AuthQuery

----------------------------------------------------------------------------
(* auth_test.py : load_dotenv *)

\* a line of text is a sequence of characters
Whitespace == {" "}

Str1(a) == <<a>>
Str3(a, b, c) == <<a, b, c>>

\* the lines a .env file is made of: blank, whitespace only, comment, no '=',
\* plain, same key with another value, padded with spaces, double-quoted,
\* single-quoted, '=' inside the value, empty value
DotLines ==
    { <<>>,
      Str1(" "),
      <<"#", "K", "=", "v">>,
      Str1("K"),
      Str3("K", "=", "v"),
      Str3("K", "=", "w"),
      <<" ", "K", " ", "=", " ", "v", " ">>,
      <<"J", "=", "\"", "v", "\"">>,
      <<"J", "=", "'", "w", "'">>,
      <<"J", "=", "w", "=", "v">>,
      <<"K", "=">> }

\* what os.environ holds before the call: nothing, or a value for K or for J
Environs ==
    { <<>>, (Str1("K") :> Str1("x")), (Str1("J") :> Str1("x")) }

\* most lines of a .env file
MaxFileLines == 2

RECURSIVE lstrip(_, _)
lstrip(str, chars) ==
    IF str # <<>> /\ Head(str) \in chars THEN lstrip(Tail(str), chars) ELSE str

RECURSIVE rstrip(_, _)
rstrip(str, chars) ==
    IF str # <<>> /\ str[Len(str)] \in chars
    THEN rstrip(SubSeq(str, 1, Len(str) - 1), chars)
    ELSE str

\* str.strip() and str.strip(chars)
strip(str, chars) == rstrip(lstrip(str, chars), chars)

\* c in str
HasChar(str, c) == \E i \in DOMAIN str : str[i] = c

\* str.split(c, 1) for a str that holds c
split1(str, c) ==
    LET i == CHOOSE i \in DOMAIN str : str[i] = c /\ \A j \in 1..(i - 1) : str[j] # c
    IN <<SubSeq(str, 1, i - 1), SubSeq(str, i + 1, Len(str))>>

\* "if not line or line.startswith('#') or '=' not in line: continue"
skipped(raw) ==
    LET line == strip(raw, Whitespace)
    IN line = <<>> \/ Head(line) = "#" \/ ~HasChar(line, "=")

\* key = k.strip()
parse_key(raw) == strip(split1(strip(raw, Whitespace), "=")[1], Whitespace)

\* val = v.strip().strip('"').strip("'")
parse_val(raw) ==
    strip(strip(strip(split1(strip(raw, Whitespace), "=")[2], Whitespace), {"\""}), {"'"})

\* os.environ.setdefault(key, val)
setdefault_overwrite(e, key, val) == (key :> val) @@ e

setdefault(e, key, val) == IF key \in DOMAIN e THEN e ELSE (key :> val) @@ e

\* the for loop over the lines of the file, from line i on
RECURSIVE load_lines(_, _, _)
load_lines(e, lines, i) ==
    IF i > Len(lines) THEN e
    ELSE IF skipped(lines[i]) THEN load_lines(e, lines, i + 1)
    ELSE load_lines(setdefault(e, parse_key(lines[i]), parse_val(lines[i])), lines, i + 1)

\* load_dotenv(path) as one call
load_dotenv ==
    /\ dotret = "unset"
    /\ IF ~dotfile.exists
       THEN /\ dotret' = "False"
            /\ environ' = environ
       ELSE /\ dotret' = "True"
            /\ environ' = load_lines(environ, dotfile.lines, 1)
    /\ UNCHANGED <<cfgVars, limit, shipVars, reportVars, dotfile, config, connVars, queryLog, exc,
                   exitStatus, findVars, mainVars, wmsVars, pc>>

----------------------------------------------------------------------------
(* The statements the scripts send *)

\* the tables get_complete_shipment_data reads, one statement each
ShipmentTables ==
    {"SHIPMENT", "ARC_SHIPMENT", "SHIPMENT_LINE", "ORD_LINE", "PRTMST", "ALT_PRTMST",
     "INVLOD", "STOP", "TRLR_LOAD", "CARMST"}

\* the statements of each phase of wms_analysis, by what they are for
PhaseStatements(n) ==
    CASE n = 1 -> {"schemas", "tables", "columns", "count"}
      [] n = 2 -> {"tables", "sample"}
      [] n = 3 -> {"tables", "sample"}
      [] n = 4 -> Range(search_strategies)

\* the first keyword of the SQL text of each statement of the three scripts
StatementKind_update_any_recent(site) ==
    IF site = "any_recent" THEN "UPDATE" ELSE "SELECT"

StatementKind(site) ==
    CASE site \in Range(Strategies) \cup {"unshipped_canadian", "unshipped_any"} -> "SELECT"
      [] site \in ShipmentTables -> "SELECT"
      [] site \in {"schemas", "tables", "columns", "count", "sample", "strategy"} -> "SELECT"
      [] site \in Range(search_strategies) -> "SELECT"
      [] site = "dual" -> "SELECT"

----------------------------------------------------------------------------
(* Specification *)

Next == DeepDiveNext \/ WmsNext \/ AuthNext

Spec == Init /\ [][Next]_vars

\* the same runs, started with every configuration value present in the
\* configuration source
InitConfigured ==
    /\ Init
    /\ \A k \in ConfigKeys(script) : env[k] = "secret"

SpecConfigured == InitConfigured /\ [][Next]_vars

\* auth_test.py alone, over every combination of present, empty, blank and
\* usable values of its three variables
InitAuth ==
    /\ Init
    /\ script = "auth_test"

SpecAuth == InitAuth /\ [][AuthNext]_vars

\* get_complete_shipment_data statement by statement, from its call in Phase 3
\* of main (unship_data = get_complete_shipment_data(cursor, unshipped[0][0]))
\* to the end of the run; the state of the call is the one main is in when
\* no strategy found an order and the first unshipped query answered one row
EmptyFind(s, p) == [strategy |-> s, pattern |-> p, cur |-> 1, err |-> FALSE, matched |-> 0]

InitShipment ==
    /\ script = "deep_dive"
    /\ env = [k \in AllKeys |-> IF k \in ConfigKeys("deep_dive") THEN "secret" ELSE Absent]
    /\ oracleAvailable = TRUE
    /\ pc = "dd_unship_deep"
    /\ config = load_config(env)
    /\ connState = <<"open">>
    /\ cursorState = <<"open">>
    /\ connection = 1
    /\ cursor = 1
    /\ connectLog = <<[ok |-> TRUE, args |-> load_config(env), missing |-> {}]>>
    /\ queryLog = <<EmptyFind("by_country", "%CANAD%"), EmptyFind("by_country", "CA"),
                    EmptyFind("by_country", "CAN"), EmptyFind("archived_canadian", ""),
                    EmptyFind("by_rossi", ""), EmptyFind("any_recent", ""),
                    [strategy |-> "unshipped_canadian", pattern |-> "", cur |-> 1,
                     err |-> FALSE, matched |-> 1]>>
    /\ exc = "none"
    /\ exitStatus = "running"
    /\ patIdx = 3
    /\ results = [k \in Range(Strategies) |-> <<>>]
    /\ canadian_orders = [k \in Range(Strategies) |-> <<>>]
    /\ selected_order = NoRow
    /\ order_type = ""
    /\ complete_data = "unset"
    /\ deepDives = <<>>
    /\ files = {}
    /\ unshipped = fetchall("unshipped_canadian", "", 1, UnshippedLimit)
    /\ unshippedCalled = TRUE
    /\ phase = 0
    /\ inRunAll = FALSE
    /\ phasesRun = <<>>
    /\ p4Results = <<>>
    /\ connectReturns = <<>>
    /\ limit = DeepDiveLimit
    /\ ShipIdle
    /\ DotIdle
    /\ ReportIdle

\* find_canadian_orders(cursor, limit) on its own, from its call in main,
\* for every limit up to MaxLimit
InitFind ==
    /\ script = "deep_dive"
    /\ env = [k \in AllKeys |-> IF k \in ConfigKeys("deep_dive") THEN "secret" ELSE Absent]
    /\ oracleAvailable = TRUE
    /\ pc = "dd_s1"
    /\ config = load_config(env)
    /\ connState = <<"open">>
    /\ cursorState = <<"open">>
    /\ connection = 1
    /\ cursor = 1
    /\ connectLog = <<[ok |-> TRUE, args |-> load_config(env), missing |-> {}]>>
    /\ queryLog = <<>>
    /\ exc = "none"
    /\ exitStatus = "running"
    /\ patIdx = 1
    /\ results = <<>>
    /\ canadian_orders = <<>>
    /\ selected_order = NoRow
    /\ order_type = ""
    /\ complete_data = "unset"
    /\ deepDives = <<>>
    /\ files = {}
    /\ unshipped = <<>>
    /\ unshippedCalled = FALSE
    /\ phase = 0
    /\ inRunAll = FALSE
    /\ phasesRun = <<>>
    /\ p4Results = <<>>
    /\ connectReturns = <<>>
    /\ limit \in 1..MaxLimit
    /\ ShipIdle
    /\ DotIdle
    /\ ReportIdle

find_canadian_orders == DDStrategy1 \/ DDStrategy2 \/ DDStrategy3 \/ DDStrategy4

SpecFind == InitFind /\ [][find_canadian_orders]_vars

\* load_dotenv on its own: auth_test is about to call it on a path that holds
\* no file or a file of up to MaxFileLines lines
DotFiles ==
    {[exists |-> FALSE, lines |-> <<>>]} \cup
    {[exists |-> TRUE, lines |-> l] :
        l \in UNION {[1..n -> DotLines] : n \in 0..MaxFileLines}}

InitDotenv ==
    /\ InitScript
    /\ script = "auth_test"
    /\ \A k \in AllKeys : env[k] = Absent
    /\ limit = DeepDiveLimit
    /\ ShipIdle
    /\ dotfile \in DotFiles
    /\ environ \in Environs
    /\ dotret = "unset"
    /\ ReportIdle

SpecDotenv == InitDotenv /\ [][load_dotenv]_vars

\* the data sources: any tables of Universe, each with some rows
Catalogs ==
    {{[owner |-> t.owner, name |-> t.name, rows |-> f[t]] : t \in S} :
        S \in SUBSET Universe, f \in [Universe -> TableSizes]}

\* the successful connect of the __main__ block, and the one of run_all_phases
Connected(n) ==
    [i \in 1..n |-> [ok |-> TRUE, args |-> from_env(env), missing |-> {}]]

\* One phase of wms_analysis with what it queries and writes: the script has
\* been started with --phase m, has connected, and is about to enter phase m
\* (for m = 4 inside run_all_phases); the reports of the phases before it are
\* not followed
InitReport ==
    /\ script = "wms_analysis"
    /\ env = [k \in AllKeys |-> IF k \in ConfigKeys("wms_analysis") THEN "secret" ELSE Absent]
    /\ oracleAvailable = TRUE
    /\ phase \in Phases
    /\ pc = PhasePc[phase]
    /\ inRunAll = (phase = 4)
    /\ config = from_env(env)
    /\ LET n == IF phase = 4 THEN 2 ELSE 1
       IN /\ connState = [i \in 1..n |-> "open"]
          /\ cursorState = [i \in 1..n |-> "open"]
          /\ connection = n
          /\ cursor = n
          /\ connectLog = Connected(n)
          /\ connectReturns = [i \in 1..n |-> TRUE]
          /\ phasesRun = [i \in 1..(phase - 1) |-> [phase |-> i, cur |-> n, conn |-> n]]
    /\ queryLog = <<>>
    /\ exc = "none"
    /\ exitStatus = "running"
    /\ patIdx = 1
    /\ results = <<>>
    /\ canadian_orders = <<>>
    /\ selected_order = NoRow
    /\ order_type = ""
    /\ complete_data = "unset"
    /\ deepDives = <<>>
    /\ files = {}
    /\ unshipped = <<>>
    /\ unshippedCalled = FALSE
    /\ p4Results = <<>>
    /\ limit = DeepDiveLimit
    /\ ShipIdle
    /\ DotIdle
    /\ catalog \in Catalogs
    /\ report = <<>>
    /\ reportFile = ""
    /\ tables = <<>>
    /\ sampled = <<>>
    /\ execLog = <<>>

NextReport ==
    \/ phase_1_report \/ phase_2_report \/ phase_3_report \/ phase_4_report
    \/ WmsRunAllFinally \/ WmsDisconnect

SpecReport == InitReport /\ [][NextReport]_vars

NextShipment == get_complete_shipment_data \/ DDUnshipWrite \/ DDFinally

SpecShipment == InitShipment /\ [][NextShipment]_vars

----------------------------------------------------------------------------
(* Vocabulary of the properties *)

\* the search a logged query belongs to
SearchOf(e) ==
    IF e.strategy \in Range(Strategies) THEN "find_canadian_orders"
    ELSE IF e.strategy \in Range(search_strategies) THEN "phase_4_canadian_analysis"
    ELSE IF e.strategy \in {"unshipped_canadian", "unshipped_any"}
    THEN "find_unshipped_canadian_order"
    ELSE "none"

\* the logged queries of one search
QueriesOf(search) == {i \in DOMAIN queryLog : SearchOf(queryLog[i]) = search}

\* find_canadian_orders has returned its dict to main
SearchReturned == script = "deep_dive" /\ DOMAIN canadian_orders # {}

\* main is past the if / elif chain that selects the order
SelectionMade == SearchReturned /\ pc # "dd_select"

\* indexes, in priority order, of the strategies whose result set is not empty
NonEmptyStrategies ==
    {i \in DOMAIN Strategies : canadian_orders[Strategies[i]] # <<>>}

\* every query of find_canadian_orders returned normally, with zero rows
NotFound ==
    /\ SearchReturned
    /\ \A i \in QueriesOf("find_canadian_orders") :
          ~queryLog[i].err /\ queryLog[i].matched = 0

ConnectionReleased ==
    /\ connection # 0 => connState[connection] = "closed"
    /\ cursor # 0 => cursorState[cursor] = "closed"

\* the sites of main's Phase 3 an exception can come from
Phase3Sites == {"find_unshipped_canadian_order", "get_complete_shipment_data", "open"}

----------------------------------------------------------------------------
(* Properties *)

\* C1: once a strategy has returned at least one row, no later strategy of
\* the same search is executed, and the search returns the rows of that one
\* strategy only (find_canadian_orders, and the strategy loop of phase 4).
C1_FirstMatchEndsSearch ==
    /\ \A i, j \in DOMAIN queryLog :
          (/\ i < j
           /\ SearchOf(queryLog[i]) = SearchOf(queryLog[j])
           /\ SearchOf(queryLog[i]) \in {"find_canadian_orders", "phase_4_canadian_analysis"}
           /\ ~queryLog[i].err)
          => queryLog[i].matched = 0
    /\ SearchReturned => Cardinality(NonEmptyStrategies) <= 1
    /\ Cardinality({i \in DOMAIN p4Results : p4Results[i] # <<>>}) <= 1

\* C2: a data-source error raised by a strategy of find_canadian_orders or of
\* find_unshipped_canadian_order does not abort the search: it never becomes
\* the exception that ends the run, and once the run is over the search it
\* occurred in has returned its result.
C2_StrategyErrorDoesNotAbort ==
    /\ exc \notin {"find_canadian_orders", "find_unshipped_canadian_order"}
    /\ (pc = "done" /\ \E i \in QueriesOf("find_canadian_orders") : queryLog[i].err)
          => SearchReturned

\* C3: when the deep-dive main ends, however it ends, a connection it opened
\* and the cursor on it have been closed.
C3_DeepDiveClosesOnEveryExit ==
    (script = "deep_dive" /\ pc = "done") => ConnectionReleased

\* C4: when wms_analysis.py ends, every connection connect() opened is closed.
C4_EveryOpenedConnectionClosed ==
    (script = "wms_analysis" /\ pc = "done")
       => \A c \in DOMAIN connState : connState[c] = "closed"

\* C5: one run of wms_analysis.py opens at most one connection, and every
\* phase runs its queries on that connection and its cursor.
C5_OneConnectionPerRun ==
    script = "wms_analysis"
       => /\ Len(connState) <= 1
          /\ \A i \in DOMAIN phasesRun : phasesRun[i].conn = 1 /\ phasesRun[i].cur = 1
          /\ \A i \in DOMAIN queryLog : queryLog[i].cur = 1

C7_DeepDiveRowFromFirstNonEmptyStrategy ==
    SelectionMade =>
       IF NonEmptyStrategies = {}
       THEN selected_order = NoRow /\ order_type = "" /\ pc # "dd_deep"
       ELSE LET k   == CHOOSE i \in NonEmptyStrategies :
                          \A j \in NonEmptyStrategies : i <= j
                key == Strategies[k]
            IN /\ selected_order = canadian_orders[key][1]
               /\ selected_order.strategy = key
               /\ selected_order.n = 1
               /\ order_type = OrderTypeOf(key)
               /\ pc # "dd_deep" => deepDives[1] = selected_order

C7_Witness ==
    /\ SelectionMade
    /\ canadian_orders["by_country"] = <<>>
    /\ Len(canadian_orders["archived_canadian"]) >= 2
    /\ canadian_orders["by_rossi"] # <<>>
    /\ selected_order = Row("archived_canadian", "", 1)
    /\ order_type = "ARCHIVED CANADIAN"
    /\ deepDives = <<selected_order>>

\* the data source matches no row for the three country patterns, the
\* archived query and the staging-location query, and 3 rows for the
\* recent-completed query
RecentOnlyFixture ==
    /\ SearchReturned
    /\ \A i \in QueriesOf("find_canadian_orders") :
          /\ ~queryLog[i].err
          /\ queryLog[i].matched = IF queryLog[i].strategy = "any_recent" THEN 3 ELSE 0

\* C8: with zero rows for every earlier strategy and 3 rows for the
\* recent-completed one, the outcome names any_recent ('RECENT US (DEMO)')
\* and carries exactly 3 rows.
C8_RecentCompletedFallback ==
    RecentOnlyFixture =>
       /\ Len(canadian_orders["any_recent"]) = 3
       /\ \A k \in DOMAIN canadian_orders :
             k # "any_recent" => canadian_orders[k] = <<>>
       /\ SelectionMade =>
             /\ selected_order.strategy = "any_recent"
             /\ order_type = "RECENT US (DEMO)"

C8_Witness ==
    /\ RecentOnlyFixture
    /\ SelectionMade
    /\ order_type = "RECENT US (DEMO)"
    /\ Len(canadian_orders["any_recent"]) = 3

\* C9: a failed connect ends the run before any query: WMSAnalyzer.connect
\* makes one attempt and returns False, the script exits with status 1 and
\* run_all_phases returns without running a phase; the deep-dive main is left
\* by the exception before find_canadian_orders is called.
C9_ConnectFailureAbortsBeforeAnyQuery ==
    /\ script = "wms_analysis" => Len(connectLog) <= Len(connectReturns)
    /\ (script = "wms_analysis" /\ connectReturns # <<>> /\ ~connectReturns[1])
          => /\ pc = "done" /\ exitStatus = "exit1"
             /\ Len(connectReturns) = 1
             /\ phasesRun = <<>> /\ queryLog = <<>>
    /\ (script = "wms_analysis" /\ Len(connectReturns) = 2 /\ ~connectReturns[2])
          => /\ ~inRunAll
             /\ pc \in {"wms_disconnect", "done"}
             /\ phasesRun = <<>> /\ queryLog = <<>>
    /\ (script = "deep_dive" /\ connectLog # <<>> /\ ~connectLog[1].ok)
          => /\ pc = "done" /\ exitStatus = "raised" /\ exc = "connect_db"
             /\ Len(connectLog) = 1
             /\ queryLog = <<>> /\ results = <<>> /\ deepDives = <<>>

C9_Witness ==
    /\ script = "wms_analysis"
    /\ connectLog # <<>> /\ ~connectLog[1].ok
    /\ connectReturns = <<FALSE>>
    /\ pc = "done"
    /\ exitStatus = "exit1"

\* C10: no connect call is issued while a value the script needs (username,
\* password, host or DSN) is missing from the configuration source.
C10_NoConnectWhileValueMissing ==
    \A i \in DOMAIN connectLog : connectLog[i].missing = {}


\* C11: a query error in any step of get_complete_shipment_data (header,
\* lines, order lines, product master, alternate parts, LPNs, stop, trailer
\* load, carrier) is skipped: no exception leaves the function, the run goes
\* on with the data gathered so far and still produces its report files
C11_ShipmentStepErrorIsSkipped ==
    shipErrs # {} =>
        /\ spc # "raised"
        /\ exc # "get_complete_shipment_data"
        /\ (pc = "done" /\ exc = "none") => Range(UnshippedOrderFiles) \subseteq files


\* the queries logged for one strategy, in order
LoggedFor(strategy) == SelectSeq(queryLog, LAMBDA e : e.strategy = strategy)

\* C14: every result set of find_canadian_orders holds at most limit rows,
\* however many rows match; each strategy gets the same bound and the bound
\* is not shared: a strategy keeps min(matched, limit) rows whatever the
\* other strategies kept
C14_RowLimitPerStrategy ==
    \A k \in DOMAIN results :
        /\ Len(results[k]) <= limit
        /\ LET q == LoggedFor(k)
           IN /\ q # <<>>
              /\ ~q[Len(q)].err
              /\ Len(results[k]) = Min(q[Len(q)].matched, limit)

\* all four strategies matched more than limit rows: 4 * limit rows in total
C14_Witness ==
    /\ DOMAIN results = Range(Strategies)
    /\ \A k \in Range(Strategies) :
          /\ Len(results[k]) = limit
          /\ LoggedFor(k)[Len(LoggedFor(k))].matched > limit

\* C19: Strategy 1 tries '%CANAD%', 'CA', 'CAN' in this order, goes to the
\* next pattern only after a pattern returned no row, and results['by_country']
\* is exactly the rows of the first pattern that returned any, or [] when all
\* three returned none
C19_FirstMatchingPatternWins ==
    LET q == LoggedFor("by_country")
    IN /\ Len(q) <= 3
       /\ \A i \in 1..Len(q) : q[i].pattern = <<"%CANAD%", "CA", "CAN">>[i]
       /\ \A i \in 1..(Len(q) - 1) : ~q[i].err /\ q[i].matched = 0
       /\ "by_country" \in DOMAIN results =>
             LET last == q[Len(q)]
                 rows == results["by_country"]
             IN /\ ~last.err
                /\ Len(rows) = Min(last.matched, limit)
                /\ \A i \in 1..Len(rows) : rows[i] = Row("by_country", last.pattern, i)
                /\ rows = <<>> => Len(q) = 3

\* the second pattern is the first one that returned rows
C19_Witness ==
    /\ "by_country" \in DOMAIN results
    /\ results["by_country"] # <<>>
    /\ results["by_country"][1].pattern = "CA"
    /\ Len(LoggedFor("by_country")) = 2

\* find_unshipped_canadian_order has returned to main
UnshippedReturned ==
    /\ unshippedCalled
    /\ pc # "dd_unshipped2"
    /\ exc # "find_unshipped_canadian_order"

\* C20: find_unshipped_canadian_order runs its fallback query exactly when
\* the first query returned no row; it returns the first query's rows when
\* there are any and the fallback's rows otherwise, never a mix, and returns
\* an empty list only when both queries returned nothing
C20_FallbackOnlyWhenFirstEmpty ==
    LET first == LoggedFor("unshipped_canadian")
        fall  == LoggedFor("unshipped_any")
    IN /\ Len(first) <= 1 /\ Len(fall) <= 1
       /\ fall # <<>> => first # <<>> /\ ~first[1].err /\ first[1].matched = 0
       /\ UnshippedReturned =>
             /\ first # <<>> /\ ~first[1].err
             /\ first[1].matched = 0 => fall # <<>> /\ ~fall[1].err
             /\ LET src == IF first[1].matched > 0 THEN first[1] ELSE fall[1]
                IN /\ Len(unshipped) = Min(src.matched, UnshippedLimit)
                   /\ \A i \in 1..Len(unshipped) :
                         unshipped[i] = Row(src.strategy, "", i)
             /\ unshipped = <<>> => first[1].matched = 0 /\ fall[1].matched = 0

\* the first query returned nothing and the fallback's rows are returned
C20_Witness ==
    /\ UnshippedReturned
    /\ unshipped # <<>>
    /\ unshipped[1].strategy = "unshipped_any"


\* the lines of the file that are not skipped
Assignments == {i \in DOMAIN dotfile.lines : ~skipped(dotfile.lines[i])}

\* the first line of the file that assigns key k
FirstLineOf(k) ==
    CHOOSE i \in Assignments :
        /\ parse_key(dotfile.lines[i]) = k
        /\ \A j \in Assignments : parse_key(dotfile.lines[j]) = k => i <= j

\* C17: load_dotenv returns True exactly when the file exists; a key already
\* in the environment keeps its value; a key the file assigns on several
\* lines gets the value of the first of them; blank lines, '#' lines and
\* lines without '=' change nothing
C17_LoadDotenvSetsOnlyUnsetKeys ==
    [][(dotret = "unset" /\ dotret' # "unset") =>
          /\ dotret' = "True" <=> dotfile.exists
          /\ \A k \in DOMAIN environ : k \in DOMAIN environ' /\ environ'[k] = environ[k]
          /\ DOMAIN environ' =
                DOMAIN environ \cup {parse_key(dotfile.lines[i]) : i \in Assignments}
          /\ \A k \in DOMAIN environ' \ DOMAIN environ :
                environ'[k] = parse_val(dotfile.lines[FirstLineOf(k)])]_vars

\* K was set before the call and the file assigns K and then J in double
\* quotes: K keeps its value, J is taken from the file without the quotes
C17_Witness ==
    /\ dotret = "True"
    /\ Len(dotfile.lines) = 2
    /\ dotfile.lines[1] = Str3("K", "=", "v")
    /\ dotfile.lines[2] = <<"J", "=", "\"", "v", "\"">>
    /\ environ = (Str1("K") :> Str1("x")) @@ (Str1("J") :> Str1("v"))


\* the report under way is one of the two sampling reports
SamplingReport == reportFile \in {"02_sample_data.txt", "03_shipment_analysis.txt"}

IsHeader(e) == e.kind \in {"TABLE", "DETAILED VIEW"}

\* the position in the report of the header of the i-th section
HeaderPos(i) ==
    CHOOSE j \in DOMAIN report :
        IsHeader(report[j]) /\ Cardinality({k \in 1..j : IsHeader(report[k])}) = i

\* the positions of the report that belong to the i-th section
Section(i) ==
    {j \in DOMAIN report :
        /\ j >= HeaderPos(i)
        /\ Cardinality({k \in 1..j : IsHeader(report[k])}) = i}

\* the sample queries of the phase, in order
Samples == SelectSeq(execLog, LAMBDA q : q.what = "sample")

\* C12: in phases 2 and 3 every table of the list gets its section header and
\* its sample query, in list order, whatever happened to the tables before
\* it; a table whose sample failed keeps its header, followed by an error line
C12_SamplingFailureIsLocal ==
    SamplingReport =>
        /\ Len(Samples) = Len(sampled)
        /\ Cardinality({j \in DOMAIN report : IsHeader(report[j])}) = Len(sampled)
        /\ \A i \in 1..Len(sampled) :
              /\ Samples[i].item = FullName(sampled[i])
              /\ report[HeaderPos(i)].item = FullName(sampled[i])
              /\ Samples[i].err =>
                    \E j \in Section(i) : j > HeaderPos(i) /\ report[j].kind = "Error"
              /\ ~Samples[i].err =>
                    /\ \E j \in Section(i) : report[j].kind = "Rows"
                    /\ \A j \in Section(i) : report[j].kind # "Error"

\* phase 2: the sample of the first table failed, the second table was sampled
C12_Witness ==
    /\ reportFile = "02_sample_data.txt"
    /\ Len(sampled) >= 2
    /\ Samples[1].err
    /\ ~Samples[2].err
    /\ \E j \in Section(2) : report[j].kind = "Rows"

\* C13: a query of phase 1 or phase 4 that failed inside execute_query leaves
\* an error line for its item in the report, which a query that returned no
\* row does not
C13_FailedQueryIsReportedInline ==
    reportFile \in {"01_schema_discovery.txt", "04_canadian_orders.txt"} =>
        \A q \in Range(execLog) :
            q.err => \E j \in DOMAIN report :
                        /\ report[j].kind \in {"Error", "Row Count: [Unable to determine]"}
                        /\ report[j].item = q.item

\* the table query of the phase under way did not fail
Enumerated == \E q \in Range(execLog) : q.what = "tables" /\ ~q.err

\* C15: the table lists of phases 1 and 2 hold exactly the tables of the data
\* source whose owner is not on the denylist, in ascending (owner, table_name)
\* order; both phases enumerate the same list on the same data source
C15_EnumerationFilteredAndOrdered ==
    /\ all_tables_query(DenylistP1) = all_tables_query(DenylistP2)
    /\ (reportFile \in {"01_schema_discovery.txt", "02_sample_data.txt"} /\ Enumerated) =>
          /\ \A i \in DOMAIN tables : tables[i].owner \notin DenylistP1
          /\ \A i \in DOMAIN tables : \A j \in DOMAIN tables :
                i < j => Before(tables[i], tables[j])
          /\ Range(tables) =
                {Table(c.owner, c.name) : c \in {x \in catalog : x.owner \notin DenylistP1}}

\* phase 2 on a data source that holds a system table next to three others
C15_Witness ==
    /\ reportFile = "02_sample_data.txt"
    /\ Enumerated
    /\ Len(tables) = 3
    /\ \E c \in catalog : c.owner = "SYS"

\* C18: phase 2 writes up to 100 sample rows per table: 100 rows for a table
\* that holds at least 100
C18_Phase2SamplesHundredRows ==
    reportFile = "02_sample_data.txt" =>
        \A j \in DOMAIN report :
            report[j].kind = "Rows" =>
                \A t \in Range(sampled) :
                    FullName(t) = report[j].item =>
                        report[j].n = Min(RowsOf(t), DocumentedSampleRows)


\* the kinds of the statements sent so far: those of the logged queries, and,
\* for a call of get_complete_shipment_data or a phase that is not followed
\* query by query, those of every statement the call or the phase may send
Sent ==
    {StatementKind(e.strategy) : e \in Range(queryLog)}
    \cup {StatementKind(t) : t \in Range(shipLog)}
    \cup {StatementKind(q.what) : q \in Range(execLog)}
    \cup (IF deepDives # <<>> THEN {StatementKind(t) : t \in ShipmentTables} ELSE {})
    \cup UNION {{StatementKind(x) : x \in PhaseStatements(p.phase)} : p \in Range(phasesRun)}

ShipmentReturned == spc = "returned" /\ complete_data = "data"

\* the header came from the archived table
FromArchive == "shipment" \in DOMAIN data /\ data["shipment"].table = "ARC_SHIPMENT"

\* C21: get_complete_shipment_data queries the active table first and the
\* archived table exactly when the active lookup found no row; data['archived']
\* is set exactly when the header came from the archived table; when neither
\* table has the shipment it returns None and runs no later query
C21_HeaderActiveThenArchived ==
    /\ [](/\ shipLog # <<>> => shipLog[1] = "SHIPMENT"
          /\ \A i \in DOMAIN shipLog : shipLog[i] = "ARC_SHIPMENT" => i = 2
          /\ ("shipment" \in DOMAIN data /\ data["shipment"].table = "SHIPMENT") =>
                "ARC_SHIPMENT" \notin Range(shipLog)
          /\ FromArchive => Len(shipLog) >= 2 /\ shipLog[2] = "ARC_SHIPMENT"
          /\ "archived" \in DOMAIN data <=> FromArchive
          /\ (spc = "returned" /\ complete_data = "None") =>
                /\ shipLog = <<"SHIPMENT", "ARC_SHIPMENT">>
                /\ "shipment" \notin DOMAIN data)
    /\ [][/\ (spc = "idle" /\ spc' # "idle") =>
                /\ shipLog' = <<"SHIPMENT">>
                /\ spc' = "arc_header" <=>
                      ("shipment" \notin DOMAIN data' /\ spc' # "raised")
          /\ spc = "arc_header" => shipLog' = <<"SHIPMENT", "ARC_SHIPMENT">>]_vars

\* the header was found in the archived table and the function went on to
\* return its data
C21_Witness ==
    /\ ShipmentReturned
    /\ FromArchive
    /\ data["archived"]
    /\ Len(shipLog) > 2

\* C22: an error of the trailer-load query or of the carrier query stays in
\* the function: data['trailer_loads'] is [] after a trailer error, no
\* 'carrier' key is added after a carrier error, the keys collected before
\* are unchanged and the data dict is returned
C22_TrailerAndCarrierErrorsAreLocal ==
    /\ []("trailer_loads" \in shipErrs =>
             /\ spc \in {"carrier", "returned"}
             /\ data["trailer_loads"] = <<>>
             /\ exc # "get_complete_shipment_data")
    /\ []("carrier" \in shipErrs =>
             /\ ShipmentReturned
             /\ "carrier" \notin DOMAIN data
             /\ exc # "get_complete_shipment_data")
    /\ [][(spc = "trailer" \/ spc = "carrier") =>
             /\ spc' \in {"carrier", "returned"}
             /\ spc = "carrier" => complete_data' = "data" /\ pc' = "dd_unship_write"
             /\ exc' = exc
             /\ \A k \in DOMAIN data : k \in DOMAIN data' /\ data'[k] = data[k]
             /\ ((DOMAIN data') \ (DOMAIN data)) \subseteq {"trailer_loads", "carrier"}]_vars

\* both queries failed on a shipment that has order lines
C22_Witness ==
    /\ ShipmentReturned
    /\ shipErrs = {"trailer_loads", "carrier"}
    /\ Get(data, "order_lines") # <<>>
    /\ "lpns" \in DOMAIN data

\* C28: every data dict get_complete_shipment_data returns has 'shipment',
\* 'shipment_lines', 'lpns' and 'trailer_loads'; 'order_lines' only with
\* shipment lines and no longer than them; 'products' and 'alternate_parts'
\* only with order lines, products no longer than them; at most 10 lpns, and
\* none when the shipment has no DSTLOC
C28_ShipmentDataShape ==
    ShipmentReturned =>
        /\ {"shipment", "shipment_lines", "lpns", "trailer_loads"} \subseteq DOMAIN data
        /\ "order_lines" \in DOMAIN data =>
              /\ data["shipment_lines"] # <<>>
              /\ Len(data["order_lines"]) <= Len(data["shipment_lines"])
        /\ "products" \in DOMAIN data =>
              /\ Get(data, "order_lines") # <<>>
              /\ Len(data["products"]) <= Len(data["order_lines"])
        /\ "alternate_parts" \in DOMAIN data => Get(data, "order_lines") # <<>>
        /\ Len(data["lpns"]) <= 10
        /\ ~data["shipment"].DSTLOC => data["lpns"] = <<>>

\* the staging location held more LPNs than the query asks for, and one of
\* two shipment lines had no order line
C28_Witness ==
    /\ ShipmentReturned
    /\ Len(data["lpns"]) = 10
    /\ Len(data["shipment_lines"]) = 2
    /\ Len(Get(data, "order_lines")) = 1
    /\ "products" \in DOMAIN data

----------------------------------------------------------------------------
(* auth_test.py : exit codes and release of the connection *)

\* the value main holds for a key after os.getenv and, for the user name and
\* the DSN, strip()
AuthEmpty(k) ==
    \/ env[k] \in {Absent, ""}
    \/ k # "ORACLE_PASSWORD" /\ env[k] = " "

AuthAnyEmpty == \E k \in ConfigKeys("auth_test") : AuthEmpty(k)

AuthReturned == script = "auth_test" /\ pc = "done"

\* C23: auth_test.main returns 2 without any connection attempt exactly when the
\* user name, the password or the DSN it holds is empty; otherwise it calls
\* connect exactly once and returns 0 when connect and the test query succeed
\* and 3 when connect or the query raises oracledb.Error
C23_AuthReturnCodes ==
    script = "auth_test" =>
        /\ Len(connectLog) <= 1
        /\ exitStatus = "exit2" => AuthAnyEmpty /\ connectLog = <<>> /\ pc = "done"
        /\ AuthReturned =>
              /\ exitStatus \in {"exit2", "ok", "exit3"}
              /\ AuthAnyEmpty => exitStatus = "exit2"
              /\ ~AuthAnyEmpty =>
                    /\ Len(connectLog) = 1
                    /\ exitStatus = "ok" <=>
                          /\ connectLog[1].ok
                          /\ Len(queryLog) = 1
                          /\ ~queryLog[1].err
                    /\ exitStatus = "exit3" <=>
                          /\ exc = "oracledb.Error"
                          /\ \/ ~connectLog[1].ok
                             \/ Len(queryLog) = 1 /\ queryLog[1].err

C23_Witness ==
    /\ AuthReturned
    /\ exitStatus = "exit3"
    /\ env["ORACLE_PASSWORD"] = " "
    /\ Len(connectLog) = 1
    /\ connectLog[1].ok
    /\ Len(queryLog) = 1

\* C24: when auth_test.main returns, every connection it opened is closed, on
\* the success path and on the path where the query raises oracledb.Error
C24_AuthClosesOnEveryPath ==
    AuthReturned =>
        /\ \A i \in DOMAIN connState : connState[i] = "closed"
        /\ \A i \in DOMAIN cursorState : cursorState[i] = "closed"

----------------------------------------------------------------------------
(* wms_analysis.py : the phases a run executes, and what disconnect closes *)

\* the numbers of the phases executed so far, in the order of execution
PhaseNumbers == [i \in DOMAIN phasesRun |-> phasesRun[i].phase]

\* the run has ended without an exception and the connect of the __main__
\* block ("if analyzer.connect():") had returned True
WmsEndedAfterConnect ==
    /\ script = "wms_analysis"
    /\ pc = "done"
    /\ exc = "none"
    /\ connectReturns # <<>>
    /\ connectReturns[1]

\* C25: for a phase selector p and a successful connect, the run executes
\* exactly the phases 1..p, each once and in ascending order, and no phase
\* greater than p
C25_RunsPhasesOneToP ==
    script = "wms_analysis" =>
        /\ Len(PhaseNumbers) <= phase
        /\ \A i \in DOMAIN PhaseNumbers : PhaseNumbers[i] = i
        /\ WmsEndedAfterConnect => PhaseNumbers = [i \in 1..phase |-> i]

\* C26: disconnect() is never applied to a cursor or a connection that has been
\* closed already
C26_DisconnectNeverClosesTwice ==
    (script = "wms_analysis" /\ pc \in {"wms_rap_finally", "wms_disconnect"}) => ~ClosesClosed

----------------------------------------------------------------------------
(* wms_analysis.py : the detailed views of phase 3 *)

\* the report of phase 3 has been written
Phase3Written == reportFile = "03_shipment_analysis.txt"

\* the tables phase 3 selected as shipment-, pallet/LPN- or line-item-related
SelectedKeyTables == Range(sampled)

\* the 'DETAILED VIEW' sections written for a table, and its sample queries
DetailedViews(t) ==
    {i \in DOMAIN report :
        report[i].kind = "DETAILED VIEW" /\ report[i].item = FullName(t)}

SamplesOf(t) ==
    {i \in DOMAIN execLog :
        execLog[i].what = "sample" /\ execLog[i].item = FullName(t)}

\* C27: in phase 3 every selected table gets exactly one 'DETAILED VIEW'
\* section and is sampled exactly once, whichever keywords its name contains
C27_OneDetailedViewPerTable ==
    Phase3Written =>
        \A t \in SelectedKeyTables :
            /\ Cardinality(DetailedViews(t)) = 1
            /\ Cardinality(SamplesOf(t)) = 1

====
